---- MODULE Spec2Model ----
(***************************************************************************)
(* StringMatcher and HeaderMatcher of                                      *)
(* src/core/lib/security/authorization/matchers.cc.                        *)
(*                                                                         *)
(* A std::string / absl::string_view is a sequence of bytes (0..255).      *)
(* An absl::optional<T> and a std::unique_ptr<T> are sequences of length   *)
(* at most one: <<>> is nullopt / nullptr, <<x>> holds x.                  *)
(* An int64_t is a sign and a canonical decimal magnitude, so that the     *)
(* whole 64-bit range (and the overflow edge of the parser) is exact.      *)
(***************************************************************************)
EXTENDS Integers, Sequences, FiniteSets, TLC

\* ------------------------------------------------------------------ bytes

\* The bytes the model names.  E_acute / e_acute are the Latin-1 encodings of
\* an upper-case and a lower-case non-ASCII letter (0xC9, 0xE9).
Ch == [tab |-> 9, space |-> 32, lparen |-> 40, star |-> 42, plus |-> 43,
       minus |-> 45, zero |-> 48, one |-> 49, two |-> 50, A |-> 65, a |-> 97,
       x |-> 120, E_acute |-> 201, e_acute |-> 233]

\* absl::ascii_isspace: space, \t, \n, \v, \f, \r.
ascii_isspace(c) == c \in {9, 10, 11, 12, 13, 32}

\* absl::ascii_tolower: only 'A'..'Z' are folded.
ascii_tolower(c) == IF c \in 65..90 THEN c + 32 ELSE c

\* absl::AsciiStrToLower.
AsciiStrToLower(s) == [i \in 1..Len(s) |-> ascii_tolower(s[i])]

\* substr(pos, n) of a string_view, pos counted from 0.
Substr(s, pos, n) == SubSeq(s, pos + 1, pos + n)

\* absl::EqualsIgnoreCase: same size and memcasecmp == 0.
EqualsIgnoreCase(p1, p2) ==
  /\ Len(p1) = Len(p2)
  /\ \A i \in 1..Len(p1) : ascii_tolower(p1[i]) = ascii_tolower(p2[i])

\* absl::StartsWith: prefix is empty, or text is long enough and memcmp == 0.
StartsWith(text, prefix) ==
  \/ Len(prefix) = 0
  \/ /\ Len(text) >= Len(prefix)
     /\ Substr(text, 0, Len(prefix)) = prefix

\* absl::EndsWith.
EndsWith(text, suffix) ==
  \/ Len(suffix) = 0
  \/ /\ Len(text) >= Len(suffix)
     /\ Substr(text, Len(text) - Len(suffix), Len(suffix)) = suffix

\* absl::StartsWithIgnoreCase.
StartsWithIgnoreCase(text, prefix) ==
  /\ Len(text) >= Len(prefix)
  /\ EqualsIgnoreCase(Substr(text, 0, Len(prefix)), prefix)

\* absl::EndsWithIgnoreCase.
EndsWithIgnoreCase(text, suffix) ==
  /\ Len(text) >= Len(suffix)
  /\ EqualsIgnoreCase(Substr(text, Len(text) - Len(suffix), Len(suffix)), suffix)

\* absl::StrContains: haystack.find(needle) != npos.
StrContains(haystack, needle) ==
  \E pos \in 0..Len(haystack) :
    /\ pos + Len(needle) <= Len(haystack)
    /\ Substr(haystack, pos, Len(needle)) = needle

\* ------------------------------------------------------------------ int64

\* The decimal digits of a natural number, most significant first.
RECURSIVE Digits(_)
Digits(n) == IF n < 10 THEN <<n>> ELSE Digits(n \div 10) \o <<n % 10>>

\* An int64_t value written from a small integer.
I64(n) == [neg |-> n < 0, mag |-> Digits(IF n < 0 THEN -n ELSE n)]

\* std::numeric_limits<int64_t>::max() = 9223372036854775807 and the
\* magnitude of min() = -9223372036854775808.
kint64max_mag == <<9, 2, 2, 3, 3, 7, 2, 0, 3, 6, 8, 5, 4, 7, 7, 5, 8, 0, 7>>
kint64min_mag == <<9, 2, 2, 3, 3, 7, 2, 0, 3, 6, 8, 5, 4, 7, 7, 5, 8, 0, 8>>
Int64Max == [neg |-> FALSE, mag |-> kint64max_mag]
Int64Min == [neg |-> TRUE, mag |-> kint64min_mag]

\* a < b on canonical magnitudes (no leading zeros).
MagLess(a, b) ==
  \/ Len(a) < Len(b)
  \/ /\ Len(a) = Len(b)
     /\ \E i \in 1..Len(a) : /\ a[i] < b[i]
                             /\ \A j \in 1..(i - 1) : a[j] = b[j]

\* a < b on int64_t.
Int64Less(a, b) ==
  IF a.neg # b.neg THEN a.neg
  ELSE IF a.neg THEN MagLess(b.mag, a.mag)
  ELSE MagLess(a.mag, b.mag)

\* The %d conversion of absl::StrFormat.
FormatInt64(v) ==
  (IF v.neg THEN <<Ch.minus>> ELSE <<>>) \o [i \in 1..Len(v.mag) |-> v.mag[i] + 48]

\* s without its leading ASCII whitespace / without its trailing one.
RECURSIVE StripLeading(_)
StripLeading(s) ==
  IF Len(s) > 0 /\ ascii_isspace(s[1]) THEN StripLeading(Tail(s)) ELSE s
RECURSIVE StripTrailing(_)
StripTrailing(s) ==
  IF Len(s) > 0 /\ ascii_isspace(s[Len(s)])
  THEN StripTrailing(SubSeq(s, 1, Len(s) - 1)) ELSE s

\* s without its leading zero digits (one digit is always kept).
RECURSIVE Canonical(_)
Canonical(d) == IF Len(d) > 1 /\ d[1] = 0 THEN Canonical(Tail(d)) ELSE d

\* absl::SimpleAtoi(absl::string_view, int64_t*): surrounding ASCII whitespace
\* is consumed, then an optional '+' or '-', then base-10 digits only; the
\* value must fit in int64_t.  [ok, value]; value is meaningful when ok.
SimpleAtoi(str) ==
  LET text == StripTrailing(StripLeading(str))
      signed == Len(text) > 0 /\ text[1] \in {Ch.minus, Ch.plus}
      negative == Len(text) > 0 /\ text[1] = Ch.minus
      body == IF signed THEN Tail(text) ELSE text
      alldigits == \A i \in 1..Len(body) : body[i] \in 48..57
      mag == Canonical([i \in 1..Len(body) |-> body[i] - 48])
      vmax == IF negative THEN kint64min_mag ELSE kint64max_mag
  IN  IF Len(body) = 0 \/ ~alldigits \/ MagLess(vmax, mag)
      THEN [ok |-> FALSE, value |-> I64(0)]
      ELSE [ok |-> TRUE,
            value |-> [neg |-> negative /\ mag # <<0>>, mag |-> mag]]

\* -------------------------------------------------------------------- RE2

(***************************************************************************)
(* The fragment of RE2 the model draws patterns from: literal ASCII bytes, *)
(* the postfix repetitions * and +, and an opening parenthesis, which is   *)
(* never closed in the fragment and so never compiles.                     *)
(***************************************************************************)
RE2Meta == {Ch.lparen, Ch.star, Ch.plus}

\* The parse of a pattern: [ok, prog], prog a sequence of [c, star] items (c+ is
\* c c*); ok is FALSE where RE2 rejects the pattern: "missing )", "missing
\* argument to repetition operator", "bad repetition operator" (a stacked one).
RECURSIVE RE2Parse(_)
RE2Parse(p) ==
  IF Len(p) = 0 THEN [ok |-> TRUE, prog |-> <<>>]
  ELSE IF p[1] \in RE2Meta THEN [ok |-> FALSE, prog |-> <<>>]
  ELSE LET rep == IF Len(p) > 1 /\ p[2] \in {Ch.star, Ch.plus} THEN p[2] ELSE 0
           rest == RE2Parse(SubSeq(p, IF rep = 0 THEN 2 ELSE 3, Len(p)))
           item == IF rep = Ch.star THEN <<[c |-> p[1], star |-> TRUE]>>
                   ELSE IF rep = Ch.plus
                   THEN <<[c |-> p[1], star |-> FALSE], [c |-> p[1], star |-> TRUE]>>
                   ELSE <<[c |-> p[1], star |-> FALSE]>>
       IN  [ok |-> rest.ok, prog |-> item \o rest.prog]

\* RE2::RE2(pattern, options): the compiled object keeps the pattern text and
\* the option it was compiled with.
RE2(pattern, case_sensitive) ==
  [pattern |-> pattern, case_sensitive |-> case_sensitive]

\* RE2::ok().
RE2_ok(re) == RE2Parse(re.pattern).ok

\* RE2::FullMatch(text, re): the whole text, anchored at both ends.
RECURSIVE RE2MatchFrom(_, _, _, _, _)
RE2MatchFrom(prog, k, text, j, cs) ==
  IF k > Len(prog) THEN j > Len(text)
  ELSE LET hit == /\ j <= Len(text)
                  /\ IF cs THEN text[j] = prog[k].c
                     ELSE ascii_tolower(text[j]) = ascii_tolower(prog[k].c)
       IN  IF prog[k].star
           THEN \/ RE2MatchFrom(prog, k + 1, text, j, cs)
                \/ (hit /\ RE2MatchFrom(prog, k, text, j + 1, cs))
           ELSE hit /\ RE2MatchFrom(prog, k + 1, text, j + 1, cs)

RE2_FullMatch(text, re) ==
  RE2MatchFrom(RE2Parse(re.pattern).prog, 1, text, 1, re.case_sensitive)

\* ---------------------------------------------------------- StringMatcher

\* enum class StringMatcher::Type, by underlying value.
StringMatcherType ==
  [EXACT |-> 0, PREFIX |-> 1, SUFFIX |-> 2, SAFE_REGEX |-> 3, CONTAINS |-> 4]

\* enum class HeaderMatcher::Type, by underlying value: the five kinds below 5
\* are "EXACT, PREFIX, SUFFIX, SAFE_REGEX and CONTAINS", then RANGE and PRESENT.
HeaderMatcherType ==
  [EXACT |-> 0, PREFIX |-> 1, SUFFIX |-> 2, SAFE_REGEX |-> 3, CONTAINS |-> 4,
   RANGE |-> 5, PRESENT |-> 6]

\* absl::StatusOr<T>: the status text and the value, if any.
OkStatus(v) == [ok |-> TRUE, status |-> "OK", value |-> <<v>>]
InvalidArgumentError(msg) == [ok |-> FALSE, status |-> msg, value |-> <<>>]

\* StringMatcher(Type, const std::string&, bool): regex_matcher_ stays null.
StringMatcher_FromString(type, matcher, case_sensitive) ==
  [type_ |-> type, string_matcher_ |-> matcher, regex_matcher_ |-> <<>>,
   case_sensitive_ |-> case_sensitive]

\* StringMatcher(std::unique_ptr<RE2>, bool): string_matcher_ stays empty.
StringMatcher_FromRegex(regex_matcher, case_sensitive) ==
  [type_ |-> StringMatcherType.SAFE_REGEX, string_matcher_ |-> <<>>,
   regex_matcher_ |-> regex_matcher, case_sensitive_ |-> case_sensitive]

\* The default-constructed StringMatcher (the matcher_ member of a RANGE or
\* PRESENT HeaderMatcher).
StringMatcher_Default ==
  StringMatcher_FromString(StringMatcherType.EXACT, <<>>, TRUE)

\* StringMatcher::Create.
StringMatcher_Create(type, matcher, case_sensitive) ==
  IF type = StringMatcherType.SAFE_REGEX
  THEN LET regex_matcher == RE2(matcher, case_sensitive)
       IN  IF ~RE2_ok(regex_matcher)
           THEN InvalidArgumentError("Invalid regex string specified in matcher.")
           ELSE OkStatus(StringMatcher_FromRegex(<<regex_matcher>>, case_sensitive))
  ELSE OkStatus(StringMatcher_FromString(type, matcher, case_sensitive))

\* A SAFE_REGEX matcher whose regex_matcher_ is null: every member function
\* that reads regex_matcher_-> or *regex_matcher_ dereferences nullptr on it.
StringMatcher_NullRegex(self) ==
  self.type_ = StringMatcherType.SAFE_REGEX /\ self.regex_matcher_ = <<>>

\* StringMatcher(const StringMatcher& other).
StringMatcher_CopyCtor(other) ==
  IF other.type_ = StringMatcherType.SAFE_REGEX
  THEN [type_ |-> other.type_, string_matcher_ |-> <<>>,
        regex_matcher_ |->
          <<RE2(other.regex_matcher_[1].pattern, other.case_sensitive_)>>,
        case_sensitive_ |-> other.case_sensitive_]
  ELSE [type_ |-> other.type_, string_matcher_ |-> other.string_matcher_,
        regex_matcher_ |-> <<>>, case_sensitive_ |-> other.case_sensitive_]

\* StringMatcher& operator=(const StringMatcher& other): only the member the
\* new type_ selects is assigned; the other member keeps what it held.
StringMatcher_CopyAssign(self, other) ==
  IF other.type_ = StringMatcherType.SAFE_REGEX
  THEN [self EXCEPT !.type_ = other.type_,
                    !.regex_matcher_ =
                      <<RE2(other.regex_matcher_[1].pattern, other.case_sensitive_)>>,
                    !.case_sensitive_ = other.case_sensitive_]
  ELSE [self EXCEPT !.type_ = other.type_,
                    !.string_matcher_ = other.string_matcher_,
                    !.case_sensitive_ = other.case_sensitive_]

\* What a moved-from std::string may hold: "valid but unspecified"; the
\* library either empties it or leaves the characters in place.
MovedFromString(s) == {<<>>, s}

\* StringMatcher(StringMatcher&& other): [self, other] after the move, residue
\* being what other.string_matcher_ holds once moved from.  A moved-from
\* unique_ptr is null.
StringMatcher_MoveCtor(other, residue) ==
  IF other.type_ = StringMatcherType.SAFE_REGEX
  THEN [self |-> [type_ |-> other.type_, string_matcher_ |-> <<>>,
                  regex_matcher_ |-> other.regex_matcher_,
                  case_sensitive_ |-> other.case_sensitive_],
        other |-> [other EXCEPT !.regex_matcher_ = <<>>]]
  ELSE [self |-> [type_ |-> other.type_,
                  string_matcher_ |-> other.string_matcher_,
                  regex_matcher_ |-> <<>>,
                  case_sensitive_ |-> other.case_sensitive_],
        other |-> [other EXCEPT !.string_matcher_ = residue]]

\* StringMatcher& operator=(StringMatcher&& other).
StringMatcher_MoveAssign(self, other, residue) ==
  IF other.type_ = StringMatcherType.SAFE_REGEX
  THEN [self |-> [self EXCEPT !.type_ = other.type_,
                              !.regex_matcher_ = other.regex_matcher_,
                              !.case_sensitive_ = other.case_sensitive_],
        other |-> [other EXCEPT !.regex_matcher_ = <<>>]]
  ELSE [self |-> [self EXCEPT !.type_ = other.type_,
                              !.string_matcher_ = other.string_matcher_,
                              !.case_sensitive_ = other.case_sensitive_],
        other |-> [other EXCEPT !.string_matcher_ = residue]]

\* Mutant: the two regex_matcher_ pointers are compared, not their patterns;
\* two objects never own the same RE2.
StringMatcher_Eq_ComparesPointers(self, other) ==
  IF self.type_ # other.type_ \/ self.case_sensitive_ # other.case_sensitive_
  THEN FALSE
  ELSE IF self.type_ = StringMatcherType.SAFE_REGEX
  THEN FALSE
  ELSE self.string_matcher_ = other.string_matcher_

\* bool StringMatcher::operator==(const StringMatcher& other) const.
StringMatcher_Eq(self, other) ==
  IF self.type_ # other.type_ \/ self.case_sensitive_ # other.case_sensitive_
  THEN FALSE
  ELSE IF self.type_ = StringMatcherType.SAFE_REGEX
  THEN self.regex_matcher_[1].pattern = other.regex_matcher_[1].pattern
  ELSE self.string_matcher_ = other.string_matcher_

\* Mutant: the case-insensitive CONTAINS folds the value and not the pattern.
StringMatcher_Match_FoldsValueOnly(self, value) ==
  CASE self.type_ = StringMatcherType.EXACT ->
         IF self.case_sensitive_ THEN value = self.string_matcher_
         ELSE EqualsIgnoreCase(value, self.string_matcher_)
    [] self.type_ = StringMatcherType.PREFIX ->
         IF self.case_sensitive_ THEN StartsWith(value, self.string_matcher_)
         ELSE StartsWithIgnoreCase(value, self.string_matcher_)
    [] self.type_ = StringMatcherType.SUFFIX ->
         IF self.case_sensitive_ THEN EndsWith(value, self.string_matcher_)
         ELSE EndsWithIgnoreCase(value, self.string_matcher_)
    [] self.type_ = StringMatcherType.CONTAINS ->
         IF self.case_sensitive_ THEN StrContains(value, self.string_matcher_)
         ELSE StrContains(AsciiStrToLower(value), self.string_matcher_)
    [] self.type_ = StringMatcherType.SAFE_REGEX ->
         RE2_FullMatch(value, self.regex_matcher_[1])
    [] OTHER -> FALSE

\* bool StringMatcher::Match(absl::string_view value) const.
StringMatcher_Match(self, value) ==
  CASE self.type_ = StringMatcherType.EXACT ->
         IF self.case_sensitive_ THEN value = self.string_matcher_
         ELSE EqualsIgnoreCase(value, self.string_matcher_)
    [] self.type_ = StringMatcherType.PREFIX ->
         IF self.case_sensitive_ THEN StartsWith(value, self.string_matcher_)
         ELSE StartsWithIgnoreCase(value, self.string_matcher_)
    [] self.type_ = StringMatcherType.SUFFIX ->
         IF self.case_sensitive_ THEN EndsWith(value, self.string_matcher_)
         ELSE EndsWithIgnoreCase(value, self.string_matcher_)
    [] self.type_ = StringMatcherType.CONTAINS ->
         IF self.case_sensitive_ THEN StrContains(value, self.string_matcher_)
         ELSE StrContains(AsciiStrToLower(value),
                          AsciiStrToLower(self.string_matcher_))
    [] self.type_ = StringMatcherType.SAFE_REGEX ->
         RE2_FullMatch(value, self.regex_matcher_[1])
    [] OTHER -> FALSE

\* The "%s%s" tail of every StringMatcher format: the text, then the
\* annotation when case_sensitive_ is false.
StringMatcher_Tail(text, case_sensitive) ==
  text \o (IF case_sensitive THEN <<>>
           ELSE \* ", case_sensitive=false"
                <<44, 32, 99, 97, 115, 101, 95, 115, 101, 110, 115, 105, 116,
                  105, 118, 101, 61, 102, 97, 108, 115, 101>>)
       \o <<125>>    \* "}"

\* std::string StringMatcher::ToString() const.
StringMatcher_ToString(self) ==
  CASE self.type_ = StringMatcherType.EXACT ->
         \* "StringMatcher{exact="
         <<83, 116, 114, 105, 110, 103, 77, 97, 116, 99, 104, 101, 114, 123,
           101, 120, 97, 99, 116, 61>>
         \o StringMatcher_Tail(self.string_matcher_, self.case_sensitive_)
    [] self.type_ = StringMatcherType.PREFIX ->
         \* "StringMatcher{prefix="
         <<83, 116, 114, 105, 110, 103, 77, 97, 116, 99, 104, 101, 114, 123,
           112, 114, 101, 102, 105, 120, 61>>
         \o StringMatcher_Tail(self.string_matcher_, self.case_sensitive_)
    [] self.type_ = StringMatcherType.SUFFIX ->
         \* "StringMatcher{suffix="
         <<83, 116, 114, 105, 110, 103, 77, 97, 116, 99, 104, 101, 114, 123,
           115, 117, 102, 102, 105, 120, 61>>
         \o StringMatcher_Tail(self.string_matcher_, self.case_sensitive_)
    [] self.type_ = StringMatcherType.CONTAINS ->
         \* "StringMatcher{contains="
         <<83, 116, 114, 105, 110, 103, 77, 97, 116, 99, 104, 101, 114, 123,
           99, 111, 110, 116, 97, 105, 110, 115, 61>>
         \o StringMatcher_Tail(self.string_matcher_, self.case_sensitive_)
    [] self.type_ = StringMatcherType.SAFE_REGEX ->
         \* "StringMatcher{safe_regex="
         <<83, 116, 114, 105, 110, 103, 77, 97, 116, 99, 104, 101, 114, 123,
           115, 97, 102, 101, 95, 114, 101, 103, 101, 120, 61>>
         \o StringMatcher_Tail(self.regex_matcher_[1].pattern, self.case_sensitive_)
    [] OTHER -> <<>>

\* ---------------------------------------------------------- HeaderMatcher

\* Mutant: the cast as if StringMatcher::Type declared CONTAINS before SAFE_REGEX.
StaticCastToStringMatcherType_Reordered(type) ==
  IF type = 3 THEN 4 ELSE IF type = 4 THEN 3 ELSE type

\* static_cast<StringMatcher::Type>(type): the underlying value is kept.
StaticCastToStringMatcherType(type) == type

\* A member the constructor did not write: an int64_t or bool of indeterminate
\* value.  The code reads such a member only after writing it.
Indeterminate == <<>>

\* HeaderMatcher(name, type, StringMatcher string_matcher, invert_match): the
\* by-value parameter is move-constructed into matcher_.
HeaderMatcher_FromStringMatcher(name, type, string_matcher, invert_match) ==
  [name_ |-> name, type_ |-> type,
   matcher_ |-> StringMatcher_MoveCtor(string_matcher, <<>>).self,
   range_start_ |-> Indeterminate, range_end_ |-> Indeterminate,
   present_match_ |-> Indeterminate, invert_match_ |-> invert_match]

\* HeaderMatcher(name, range_start, range_end, invert_match).
HeaderMatcher_FromRange(name, range_start, range_end, invert_match) ==
  [name_ |-> name, type_ |-> HeaderMatcherType.RANGE,
   matcher_ |-> StringMatcher_Default,
   range_start_ |-> <<range_start>>, range_end_ |-> <<range_end>>,
   present_match_ |-> Indeterminate, invert_match_ |-> invert_match]

\* HeaderMatcher(name, present_match, invert_match).
HeaderMatcher_FromPresent(name, present_match, invert_match) ==
  [name_ |-> name, type_ |-> HeaderMatcherType.PRESENT,
   matcher_ |-> StringMatcher_Default,
   range_start_ |-> Indeterminate, range_end_ |-> Indeterminate,
   present_match_ |-> <<present_match>>, invert_match_ |-> invert_match]

\* Mutant: the range check is >=, so an empty range is rejected too.
HeaderMatcher_Create_RejectsEmptyRange(name, type, matcher, range_start, range_end, present_match, invert_match) ==
  IF type < 5
  THEN LET string_matcher ==
             StringMatcher_Create(StaticCastToStringMatcherType(type), matcher, TRUE)
       IN  IF ~string_matcher.ok
           THEN InvalidArgumentError(string_matcher.status)
           ELSE OkStatus(HeaderMatcher_FromStringMatcher(
                           name, type,
                           StringMatcher_MoveCtor(string_matcher.value[1], <<>>).self,
                           invert_match))
  ELSE IF type = HeaderMatcherType.RANGE
  THEN IF ~Int64Less(range_start, range_end)
       THEN InvalidArgumentError(
              "Invalid range specifier specified: end cannot be smaller than start.")
       ELSE OkStatus(HeaderMatcher_FromRange(name, range_start, range_end,
                                             invert_match))
  ELSE OkStatus(HeaderMatcher_FromPresent(name, present_match, invert_match))

\* HeaderMatcher::Create.
HeaderMatcher_Create(name, type, matcher, range_start, range_end, present_match, invert_match) ==
  IF type < 5
  THEN LET string_matcher ==
             StringMatcher_Create(StaticCastToStringMatcherType(type), matcher, TRUE)
       IN  IF ~string_matcher.ok
           THEN InvalidArgumentError(string_matcher.status)
           ELSE OkStatus(HeaderMatcher_FromStringMatcher(
                           name, type,
                           StringMatcher_MoveCtor(string_matcher.value[1], <<>>).self,
                           invert_match))
  ELSE IF type = HeaderMatcherType.RANGE
  THEN IF Int64Less(range_end, range_start)
       THEN InvalidArgumentError(
              "Invalid range specifier specified: end cannot be smaller than start.")
       ELSE OkStatus(HeaderMatcher_FromRange(name, range_start, range_end,
                                             invert_match))
  ELSE OkStatus(HeaderMatcher_FromPresent(name, present_match, invert_match))

\* The members the copy and move operations share: the switch on type_ that
\* assigns the range bounds, the presence flag, or (by `matcher`) matcher_.
HeaderMatcher_Assign(self, other, name, matcher) ==
  CASE other.type_ = HeaderMatcherType.RANGE ->
         [self EXCEPT !.name_ = name, !.type_ = other.type_,
                      !.invert_match_ = other.invert_match_,
                      !.range_start_ = other.range_start_,
                      !.range_end_ = other.range_end_]
    [] other.type_ = HeaderMatcherType.PRESENT ->
         [self EXCEPT !.name_ = name, !.type_ = other.type_,
                      !.invert_match_ = other.invert_match_,
                      !.present_match_ = other.present_match_]
    [] OTHER ->
         [self EXCEPT !.name_ = name, !.type_ = other.type_,
                      !.invert_match_ = other.invert_match_,
                      !.matcher_ = matcher]

\* A HeaderMatcher before its constructor body runs: the members without an
\* initializer in the constructor's list.
HeaderMatcher_Raw ==
  [name_ |-> <<>>, type_ |-> HeaderMatcherType.EXACT,
   matcher_ |-> StringMatcher_Default,
   range_start_ |-> Indeterminate, range_end_ |-> Indeterminate,
   present_match_ |-> Indeterminate, invert_match_ |-> FALSE]

\* Whether the operation reads through a null regex_matcher_ of other.matcher_.
HeaderMatcher_NullRegex(self) ==
  self.type_ < 5 /\ StringMatcher_NullRegex(self.matcher_)

\* HeaderMatcher(const HeaderMatcher& other).
HeaderMatcher_CopyCtor(other) ==
  HeaderMatcher_Assign(HeaderMatcher_Raw, other, other.name_,
                       IF other.type_ < 5
                       THEN StringMatcher_CopyAssign(StringMatcher_Default,
                                                     other.matcher_)
                       ELSE StringMatcher_Default)

\* HeaderMatcher& operator=(const HeaderMatcher& other).
HeaderMatcher_CopyAssign(self, other) ==
  HeaderMatcher_Assign(self, other, other.name_,
                       IF other.type_ < 5
                       THEN StringMatcher_CopyAssign(self.matcher_, other.matcher_)
                       ELSE self.matcher_)

\* other after a HeaderMatcher move: name_ moved from, and matcher_ moved from
\* when the kind is one of the five string kinds.
HeaderMatcher_MovedFrom(other, name_residue, residue) ==
  [other EXCEPT !.name_ = name_residue,
                !.matcher_ =
                  IF other.type_ < 5
                  THEN StringMatcher_MoveAssign(StringMatcher_Default,
                                                other.matcher_, residue).other
                  ELSE other.matcher_]

\* HeaderMatcher(HeaderMatcher&& other): [self, other] after the move.
HeaderMatcher_MoveCtor(other, name_residue, residue) ==
  [self |-> HeaderMatcher_Assign(
              HeaderMatcher_Raw, other, other.name_,
              IF other.type_ < 5
              THEN StringMatcher_MoveAssign(StringMatcher_Default,
                                            other.matcher_, residue).self
              ELSE StringMatcher_Default),
   other |-> HeaderMatcher_MovedFrom(other, name_residue, residue)]

\* HeaderMatcher& operator=(HeaderMatcher&& other).
HeaderMatcher_MoveAssign(self, other, name_residue, residue) ==
  [self |-> HeaderMatcher_Assign(
              self, other, other.name_,
              IF other.type_ < 5
              THEN StringMatcher_MoveAssign(self.matcher_, other.matcher_,
                                            residue).self
              ELSE self.matcher_),
   other |-> HeaderMatcher_MovedFrom(other, name_residue, residue)]

\* bool HeaderMatcher::operator==(const HeaderMatcher& other) const.
HeaderMatcher_Eq(self, other) ==
  IF self.name_ # other.name_ THEN FALSE
  ELSE IF self.type_ # other.type_ THEN FALSE
  ELSE IF self.invert_match_ # other.invert_match_ THEN FALSE
  ELSE CASE self.type_ = HeaderMatcherType.RANGE ->
              /\ self.range_start_ = other.range_start_
              /\ self.range_end_ = other.range_end_
         [] self.type_ = HeaderMatcherType.PRESENT ->
              self.present_match_ = other.present_match_
         [] OTHER -> StringMatcher_Eq(self.matcher_, other.matcher_)

\* Mutant: an absent value returns false before the inversion is applied.
HeaderMatcher_Match_AbsentUninverted(self, value) ==
  LET has_value == Len(value) = 1
      match ==
        IF self.type_ = HeaderMatcherType.PRESENT
        THEN has_value = self.present_match_[1]
        ELSE IF self.type_ = HeaderMatcherType.RANGE
        THEN LET parsed == SimpleAtoi(value[1])
             IN  /\ parsed.ok
                 /\ ~Int64Less(parsed.value, self.range_start_[1])
                 /\ Int64Less(parsed.value, self.range_end_[1])
        ELSE StringMatcher_Match(self.matcher_, value[1])
  IN  IF self.type_ # HeaderMatcherType.PRESENT /\ ~has_value THEN FALSE
      ELSE match # self.invert_match_

\* Mutant: the range is closed, int_value <= range_end_.
HeaderMatcher_Match_ClosedRange(self, value) ==
  LET has_value == Len(value) = 1
      match ==
        IF self.type_ = HeaderMatcherType.PRESENT
        THEN has_value = self.present_match_[1]
        ELSE IF ~has_value
        THEN FALSE
        ELSE IF self.type_ = HeaderMatcherType.RANGE
        THEN LET parsed == SimpleAtoi(value[1])
             IN  /\ parsed.ok
                 /\ ~Int64Less(parsed.value, self.range_start_[1])
                 /\ ~Int64Less(self.range_end_[1], parsed.value)
        ELSE StringMatcher_Match(self.matcher_, value[1])
  IN  match # self.invert_match_

\* Mutant: the absence test comes first, for PRESENT as for the other kinds.
HeaderMatcher_Match_AbsentFirst(self, value) ==
  LET has_value == Len(value) = 1
      match ==
        IF ~has_value
        THEN FALSE
        ELSE IF self.type_ = HeaderMatcherType.PRESENT
        THEN has_value = self.present_match_[1]
        ELSE IF self.type_ = HeaderMatcherType.RANGE
        THEN LET parsed == SimpleAtoi(value[1])
             IN  /\ parsed.ok
                 /\ ~Int64Less(parsed.value, self.range_start_[1])
                 /\ Int64Less(parsed.value, self.range_end_[1])
        ELSE StringMatcher_Match(self.matcher_, value[1])
  IN  match # self.invert_match_

\* bool HeaderMatcher::Match(const absl::optional<absl::string_view>& value).
HeaderMatcher_Match(self, value) ==
  LET has_value == Len(value) = 1
      match ==
        IF self.type_ = HeaderMatcherType.PRESENT
        THEN has_value = self.present_match_[1]
        ELSE IF ~has_value
        THEN FALSE
        ELSE IF self.type_ = HeaderMatcherType.RANGE
        THEN LET parsed == SimpleAtoi(value[1])
             IN  /\ parsed.ok
                 /\ ~Int64Less(parsed.value, self.range_start_[1])
                 /\ Int64Less(parsed.value, self.range_end_[1])
        ELSE StringMatcher_Match(self.matcher_, value[1])
  IN  match # self.invert_match_

\* std::string HeaderMatcher::ToString() const.
HeaderMatcher_ToString(self) ==
  LET \* "HeaderMatcher{%s %s": the name, a space, "not " when inverted.
      head == <<72, 101, 97, 100, 101, 114, 77, 97, 116, 99, 104, 101, 114, 123>>
              \o self.name_ \o <<32>>
              \o (IF self.invert_match_ THEN <<110, 111, 116, 32>> ELSE <<>>)
  IN  CASE self.type_ = HeaderMatcherType.RANGE ->
             \* "range=[%d, %d]}"
             head \o <<114, 97, 110, 103, 101, 61, 91>>
                  \o FormatInt64(self.range_start_[1]) \o <<44, 32>>
                  \o FormatInt64(self.range_end_[1]) \o <<93, 125>>
        [] self.type_ = HeaderMatcherType.PRESENT ->
             \* "present=%s}" with "true" or "false"
             head \o <<112, 114, 101, 115, 101, 110, 116, 61>>
                  \o (IF self.present_match_[1] THEN <<116, 114, 117, 101>>
                      ELSE <<102, 97, 108, 115, 101>>)
                  \o <<125>>
        [] self.type_ \in {HeaderMatcherType.EXACT, HeaderMatcherType.PREFIX,
                           HeaderMatcherType.SUFFIX, HeaderMatcherType.SAFE_REGEX,
                           HeaderMatcherType.CONTAINS} ->
             head \o StringMatcher_ToString(self.matcher_) \o <<125>>
        [] OTHER -> <<>>

\* ----------------------------------------------------------------- inputs

\* The longest literal pattern and the longest value given to a StringMatcher.
MaxPatternLen == 2
MaxValueLen == 3
\* The longest header value, besides the edge values below.
MaxHeaderValueLen == 3

\* All byte strings over an alphabet, up to a length.
Strings(alphabet, n) == UNION {[1..k -> alphabet] : k \in 0..n}

\* Letters in both cases, ASCII and not.
Letters == {Ch.a, Ch.A, Ch.E_acute, Ch.e_acute}
LiteralPatterns == Strings(Letters, MaxPatternLen)
Values == Strings(Letters, MaxValueLen)

\* Regular expressions of the fragment: "", "a", "A", "a+", "a*A", and three
\* that do not compile: "(", "*a", "a**".
RegexPatterns ==
  {<<>>, <<97>>, <<65>>, <<97, 43>>, <<97, 42, 65>>, <<40>>, <<42, 97>>, <<97, 42, 42>>}

\* What StringMatcher::Create is called with: <<type, matcher>>.
StringInputs ==
  ({StringMatcherType.EXACT, StringMatcherType.PREFIX, StringMatcherType.SUFFIX,
    StringMatcherType.CONTAINS} \X LiteralPatterns)
  \cup ({StringMatcherType.SAFE_REGEX} \X RegexPatterns)

\* Header values: whitespace, signs, digits and a letter, up to a length; and
\* longer ones: the values around the ends of int64_t, "\t1\n", " -1 ", "A".
HeaderBytes == {Ch.space, Ch.plus, Ch.minus, Ch.zero, Ch.one, Ch.two, Ch.a}
EdgeValues ==
  {[i \in 1..19 |-> kint64max_mag[i] + 48], [i \in 1..19 |-> kint64min_mag[i] + 48],
   <<Ch.minus>> \o [i \in 1..19 |-> kint64min_mag[i] + 48],
   <<Ch.minus>> \o [i \in 1..19 |-> kint64max_mag[i] + 48] \o <<Ch.zero>>,
   <<Ch.tab, Ch.one, 10>>, <<Ch.space, Ch.minus, Ch.one, Ch.space>>, <<Ch.A>>}
HeaderValues == Strings(HeaderBytes, MaxHeaderValueLen) \cup EdgeValues
\* absl::optional<absl::string_view>: absent, or one of the values.
OptionalValues == {<<>>} \cup {<<v>> : v \in HeaderValues}

\* Header patterns: "", "a", "A", "1", "a+", "1*", "(".
HeaderPatterns == {<<>>, <<97>>, <<65>>, <<49>>, <<97, 43>>, <<49, 42>>, <<40>>}
HeaderNames == {<<Ch.x>>}
RangeBounds == {Int64Min, I64(-1), I64(0), I64(2), Int64Max}
HeaderTypes == {HeaderMatcherType[k] : k \in DOMAIN HeaderMatcherType}

\* Names and patterns of the object pool: "x" and "x not"; "a" and
\* "a, case_sensitive=false".
PoolNames == {<<120>>, <<120, 32, 110, 111, 116>>}
PoolPatterns ==
  {<<97>>, <<97, 44, 32, 99, 97, 115, 101, 95, 115, 101, 110, 115, 105, 116, 105,
     118, 101, 61, 102, 97, 108, 115, 101>>}
PoolRangeBounds == {I64(1), I64(2)}
PoolStringInputs ==
  {StringMatcherType[k] : k \in DOMAIN StringMatcherType} \X PoolPatterns
\* The values two pooled matchers are compared on: absent, "", "a", "A", "1".
PoolValues == {<<>>, <<<<>>>>, <<<<97>>>>, <<<<65>>>>, <<<<49>>>>}

\* ------------------------------------------------------------------ state

VARIABLES
  sm,    \* the StringMatcher objects: slot -> <<>> (not constructed) or <<object>>
  hm,    \* the HeaderMatcher objects, likewise
  ret    \* the last call: its name, arguments and result

vars == <<sm, hm, ret>>

\* Every operation of the two classes involves at most two objects: the slots
\* are its left and right operand.
Slots == {1, 2}
\* The most objects alive at once, of both classes together.
MaxLive == Cardinality(Slots)

\* The objects alive.
Live ==
  Cardinality({i \in Slots : sm[i] # <<>>}) + Cardinality({i \in Slots : hm[i] # <<>>})

\* A call has returned and the caller has yet to take its result.
Pending == ret.op \notin {"none", "SIGSEGV"}

\* No call is in progress: the next one can start.
Idle == ret.op = "none"

Init ==
  /\ sm = [i \in Slots |-> <<>>]
  /\ hm = [i \in Slots |-> <<>>]
  /\ ret = [op |-> "none"]

\* The caller takes the result of the call.
Return ==
  /\ Pending
  /\ ret' = [op |-> "none"]
  /\ UNCHANGED <<sm, hm>>

\* -------------------------------------------------- StringMatcher actions

\* auto r = StringMatcher::Create(type, matcher, case_sensitive);
\* if (r.ok()) new (slot i) StringMatcher(std::move(r.value()));
\* inputs: the <<type, matcher>> pairs the call is made with.
SMCreate(i, inputs) ==
  /\ Idle /\ sm[i] = <<>> /\ Live < MaxLive
  /\ \E in \in inputs, case_sensitive \in BOOLEAN :
       LET r == StringMatcher_Create(in[1], in[2], case_sensitive)
       IN  /\ sm' = IF r.ok
                    THEN [sm EXCEPT ![i] =
                            <<StringMatcher_MoveCtor(r.value[1], <<>>).self>>]
                    ELSE sm
           /\ ret' = [op |-> "Create", class |-> "StringMatcher", slot |-> i,
                      args |-> <<in[1], in[2], case_sensitive>>, ok |-> r.ok,
                      status |-> r.status]
  /\ UNCHANGED hm

\* new (slot i) StringMatcher(sm[j])
SMCopyCtor(i, j) ==
  /\ Idle /\ sm[i] = <<>> /\ sm[j] # <<>> /\ Live < MaxLive
  /\ IF StringMatcher_NullRegex(sm[j][1])
     THEN ret' = [op |-> "SIGSEGV"] /\ UNCHANGED sm
     ELSE /\ sm' = [sm EXCEPT ![i] = <<StringMatcher_CopyCtor(sm[j][1])>>]
          /\ ret' = [op |-> "CopyCtor", class |-> "StringMatcher", slot |-> i,
                     other |-> j]
  /\ UNCHANGED hm

\* sm[i] = sm[j]
SMCopyAssign(i, j) ==
  /\ Idle /\ sm[i] # <<>> /\ sm[j] # <<>>
  /\ IF StringMatcher_NullRegex(sm[j][1])
     THEN ret' = [op |-> "SIGSEGV"] /\ UNCHANGED sm
     ELSE /\ sm' = [sm EXCEPT ![i] = <<StringMatcher_CopyAssign(sm[i][1], sm[j][1])>>]
          /\ ret' = [op |-> "CopyAssign", class |-> "StringMatcher", slot |-> i,
                     other |-> j]
  /\ UNCHANGED hm

\* new (slot i) StringMatcher(std::move(sm[j])), i # j
SMMoveCtor(i, j) ==
  /\ Idle /\ sm[i] = <<>> /\ sm[j] # <<>> /\ Live < MaxLive
  /\ \E residue \in MovedFromString(sm[j][1].string_matcher_) :
       LET r == StringMatcher_MoveCtor(sm[j][1], residue)
       IN  sm' = [sm EXCEPT ![i] = <<r.self>>, ![j] = <<r.other>>]
  /\ ret' = [op |-> "MoveCtor", class |-> "StringMatcher", slot |-> i, other |-> j]
  /\ UNCHANGED hm

\* sm[i] = std::move(sm[j]), i # j
SMMoveAssign(i, j) ==
  /\ Idle /\ i # j /\ sm[i] # <<>> /\ sm[j] # <<>>
  /\ \E residue \in MovedFromString(sm[j][1].string_matcher_) :
       LET r == StringMatcher_MoveAssign(sm[i][1], sm[j][1], residue)
       IN  sm' = [sm EXCEPT ![i] = <<r.self>>, ![j] = <<r.other>>]
  /\ ret' = [op |-> "MoveAssign", class |-> "StringMatcher", slot |-> i, other |-> j]
  /\ UNCHANGED hm

\* sm[i].Match(value), value drawn from values
SMMatch(i, values) ==
  /\ Idle /\ sm[i] # <<>>
  /\ \E value \in values :
       ret' = IF StringMatcher_NullRegex(sm[i][1]) THEN [op |-> "SIGSEGV"]
              ELSE [op |-> "Match", class |-> "StringMatcher", slot |-> i,
                    value |-> <<value>>,
                    result |-> StringMatcher_Match(sm[i][1], value)]
  /\ UNCHANGED <<sm, hm>>

\* sm[i] == sm[j]
SMEq(i, j) ==
  /\ Idle /\ sm[i] # <<>> /\ sm[j] # <<>>
  /\ ret' = IF /\ sm[i][1].type_ = sm[j][1].type_
               /\ sm[i][1].case_sensitive_ = sm[j][1].case_sensitive_
               /\ (StringMatcher_NullRegex(sm[i][1]) \/ StringMatcher_NullRegex(sm[j][1]))
            THEN [op |-> "SIGSEGV"]
            ELSE [op |-> "Eq", class |-> "StringMatcher", slot |-> i, other |-> j,
                  result |-> StringMatcher_Eq(sm[i][1], sm[j][1])]
  /\ UNCHANGED <<sm, hm>>

\* -------------------------------------------------- HeaderMatcher actions

\* auto r = HeaderMatcher::Create(name, type, matcher, range_start, range_end,
\*                                present_match, invert_match);
\* if (r.ok()) new (slot i) HeaderMatcher(std::move(r.value()));
\* names, matchers, bounds: what name, matcher and the two range bounds are
\* drawn from; every type and both values of each flag are tried.
HMCreate(i, names, matchers, bounds) ==
  /\ Idle /\ hm[i] = <<>> /\ Live < MaxLive
  /\ \E name \in names, type \in HeaderTypes, matcher \in matchers,
        range_start \in bounds, range_end \in bounds,
        present_match \in BOOLEAN, invert_match \in BOOLEAN :
       LET r == HeaderMatcher_Create(name, type, matcher, range_start, range_end,
                                     present_match, invert_match)
       IN  /\ hm' = IF r.ok
                    THEN [hm EXCEPT ![i] =
                            <<HeaderMatcher_MoveCtor(r.value[1], <<>>, <<>>).self>>]
                    ELSE hm
           /\ ret' = [op |-> "Create", class |-> "HeaderMatcher", slot |-> i,
                      args |-> [name |-> name, type |-> type, matcher |-> matcher,
                                range_start |-> range_start,
                                range_end |-> range_end,
                                present_match |-> present_match,
                                invert_match |-> invert_match],
                      ok |-> r.ok, status |-> r.status]
  /\ UNCHANGED sm

\* new (slot i) HeaderMatcher(hm[j])
HMCopyCtor(i, j) ==
  /\ Idle /\ hm[i] = <<>> /\ hm[j] # <<>> /\ Live < MaxLive
  /\ IF HeaderMatcher_NullRegex(hm[j][1])
     THEN ret' = [op |-> "SIGSEGV"] /\ UNCHANGED hm
     ELSE /\ hm' = [hm EXCEPT ![i] = <<HeaderMatcher_CopyCtor(hm[j][1])>>]
          /\ ret' = [op |-> "CopyCtor", class |-> "HeaderMatcher", slot |-> i,
                     other |-> j]
  /\ UNCHANGED sm

\* hm[i] = hm[j]
HMCopyAssign(i, j) ==
  /\ Idle /\ hm[i] # <<>> /\ hm[j] # <<>>
  /\ IF HeaderMatcher_NullRegex(hm[j][1])
     THEN ret' = [op |-> "SIGSEGV"] /\ UNCHANGED hm
     ELSE /\ hm' = [hm EXCEPT ![i] = <<HeaderMatcher_CopyAssign(hm[i][1], hm[j][1])>>]
          /\ ret' = [op |-> "CopyAssign", class |-> "HeaderMatcher", slot |-> i,
                     other |-> j]
  /\ UNCHANGED sm

\* new (slot i) HeaderMatcher(std::move(hm[j]))
HMMoveCtor(i, j) ==
  /\ Idle /\ hm[i] = <<>> /\ hm[j] # <<>> /\ Live < MaxLive
  /\ \E name_residue \in MovedFromString(hm[j][1].name_),
        residue \in MovedFromString(hm[j][1].matcher_.string_matcher_) :
       LET r == HeaderMatcher_MoveCtor(hm[j][1], name_residue, residue)
       IN  hm' = [hm EXCEPT ![i] = <<r.self>>, ![j] = <<r.other>>]
  /\ ret' = [op |-> "MoveCtor", class |-> "HeaderMatcher", slot |-> i, other |-> j]
  /\ UNCHANGED sm

\* hm[i] = std::move(hm[j]), i # j
HMMoveAssign(i, j) ==
  /\ Idle /\ i # j /\ hm[i] # <<>> /\ hm[j] # <<>>
  /\ \E name_residue \in MovedFromString(hm[j][1].name_),
        residue \in MovedFromString(hm[j][1].matcher_.string_matcher_) :
       LET r == HeaderMatcher_MoveAssign(hm[i][1], hm[j][1], name_residue, residue)
       IN  hm' = [hm EXCEPT ![i] = <<r.self>>, ![j] = <<r.other>>]
  /\ ret' = [op |-> "MoveAssign", class |-> "HeaderMatcher", slot |-> i, other |-> j]
  /\ UNCHANGED sm

\* hm[i].Match(value), value drawn from values
HMMatch(i, values) ==
  /\ Idle /\ hm[i] # <<>>
  /\ \E value \in values :
       ret' = IF HeaderMatcher_NullRegex(hm[i][1]) /\ value # <<>>
              THEN [op |-> "SIGSEGV"]
              ELSE [op |-> "Match", class |-> "HeaderMatcher", slot |-> i,
                    value |-> value,
                    result |-> HeaderMatcher_Match(hm[i][1], value)]
  /\ UNCHANGED <<sm, hm>>

\* hm[i].ToString()
HMToString(i) ==
  /\ Idle /\ hm[i] # <<>>
  /\ ret' = IF HeaderMatcher_NullRegex(hm[i][1]) THEN [op |-> "SIGSEGV"]
            ELSE [op |-> "ToString", class |-> "HeaderMatcher", slot |-> i,
                  result |-> HeaderMatcher_ToString(hm[i][1])]
  /\ UNCHANGED <<sm, hm>>

\* hm[i] == hm[j]
HMEq(i, j) ==
  /\ Idle /\ hm[i] # <<>> /\ hm[j] # <<>>
  /\ ret' = IF /\ hm[i][1].name_ = hm[j][1].name_
               /\ hm[i][1].type_ = hm[j][1].type_
               /\ hm[i][1].invert_match_ = hm[j][1].invert_match_
               /\ (HeaderMatcher_NullRegex(hm[i][1]) \/ HeaderMatcher_NullRegex(hm[j][1]))
            THEN [op |-> "SIGSEGV"]
            ELSE [op |-> "Eq", class |-> "HeaderMatcher", slot |-> i, other |-> j,
                  result |-> HeaderMatcher_Eq(hm[i][1], hm[j][1])]
  /\ UNCHANGED <<sm, hm>>

\* --------------------------------------------------------- specifications

\* One StringMatcher, created and then matched against values.
NextString ==
  \/ SMCreate(1, StringInputs)
  \/ SMMatch(1, Values)
  \/ Return

SpecString == Init /\ [][NextString]_vars

\* One HeaderMatcher, created and then matched against optional values.
NextHeader ==
  \/ HMCreate(1, HeaderNames, HeaderPatterns, RangeBounds)
  \/ HMMatch(1, OptionalValues)
  \/ HMToString(1)
  \/ Return

SpecHeader == Init /\ [][NextHeader]_vars

\* Creating a pooled object of either class.
PoolCreate ==
  \E i \in Slots :
    \/ SMCreate(i, PoolStringInputs)
    \/ HMCreate(i, PoolNames, PoolPatterns, PoolRangeBounds)

\* Copying and comparing pooled objects.
PoolCopy ==
  \E i, j \in Slots :
    \/ SMCopyCtor(i, j) \/ SMCopyAssign(i, j) \/ SMEq(i, j)
    \/ HMCopyCtor(i, j) \/ HMCopyAssign(i, j) \/ HMEq(i, j)

\* Moving pooled objects.
PoolMove ==
  \E i, j \in Slots :
    \/ SMMoveCtor(i, j) \/ SMMoveAssign(i, j)
    \/ HMMoveCtor(i, j) \/ HMMoveAssign(i, j)

\* A pool of objects that are created, copied and compared.
NextCopy == PoolCreate \/ PoolCopy \/ Return

SpecCopy == Init /\ [][NextCopy]_vars

\* A pool of objects that are created, copied, moved and compared.
Next == PoolCreate \/ PoolCopy \/ PoolMove \/ Return

Spec == Init /\ [][Next]_vars

\* ----------------------------------------------------------------- claims

\* The call that has just returned is a Match on a HeaderMatcher / StringMatcher.
HMMatched == ret.op = "Match" /\ ret.class = "HeaderMatcher"
SMMatched == ret.op = "Match" /\ ret.class = "StringMatcher"
\* The object the call was made on.
HMSelf == hm[ret.slot][1]
SMSelf == sm[ret.slot][1]

RefTrim(v) ==
  LET keep == {i \in 1..Len(v) : v[i] \notin {9, 10, 11, 12, 13, 32}}
  IN  IF keep = {} THEN <<>>
      ELSE SubSeq(v, CHOOSE i \in keep : \A j \in keep : i <= j,
                     CHOOSE i \in keep : \A j \in keep : j <= i)

\* The digits of t after its optional sign.
RefDigits(t) == IF Len(t) > 0 /\ t[1] \in {Ch.plus, Ch.minus} THEN Tail(t) ELSE t

\* t is, from its first byte to its last, an optional sign and decimal digits.
RefIsDecimal(t) ==
  Len(RefDigits(t)) > 0 /\ \A i \in 1..Len(RefDigits(t)) : RefDigits(t)[i] \in 48..57

\* The integer the decimal text t denotes.
RefValue(t) ==
  LET mag == Canonical([i \in 1..Len(RefDigits(t)) |-> RefDigits(t)[i] - 48])
  IN  [neg |-> t[1] = Ch.minus /\ mag # <<0>>, mag |-> mag]

\* t denotes an int64_t n with range_start <= n < range_end.
RefInRange(t, range_start, range_end) ==
  /\ RefIsDecimal(t)
  /\ ~Int64Less(RefValue(t), Int64Min) /\ ~Int64Less(Int64Max, RefValue(t))
  /\ ~Int64Less(RefValue(t), range_start)
  /\ Int64Less(RefValue(t), range_end)

\* A Match of a present value on a RANGE matcher that is not inverted.
RangeMatched ==
  /\ HMMatched /\ ret.value # <<>>
  /\ HMSelf.type_ = HeaderMatcherType.RANGE /\ ~HMSelf.invert_match_

\* C2 as stated: a RANGE matcher, not inverted, matches a present value v if and
\* only if the entire string v is a base-10 signed integer n that fits in int64
\* with range_start <= n < range_end.
C2_EntireStringIsInteger ==
  RangeMatched =>
    (ret.result <=>
       RefInRange(ret.value[1], HMSelf.range_start_[1], HMSelf.range_end_[1]))

\* C2 as amended: a RANGE matcher, not inverted, matches a present value v if
\* and only if v without its leading and trailing ASCII whitespace is an optional
\* '+' or '-' and then decimal digits only, denoting an n that fits in int64 with
\* range_start <= n < range_end; so range_end never matches and a matcher with
\* range_start = range_end matches no value.
C2_TrimmedStringIsInteger ==
  RangeMatched =>
    /\ ret.result <=>
         RefInRange(RefTrim(ret.value[1]), HMSelf.range_start_[1],
                    HMSelf.range_end_[1])
    /\ HMSelf.range_start_ = HMSelf.range_end_ => ~ret.result
    /\ (RefIsDecimal(ret.value[1]) /\ RefValue(ret.value[1]) = HMSelf.range_end_[1])
         => ~ret.result

\* A value padded with whitespace has matched a RANGE matcher.
C2_Witness ==
  RangeMatched /\ ret.result /\ RefTrim(ret.value[1]) # ret.value[1]

\* C3: HeaderMatcher::Create returns an error if and only if the kind is
\* SAFE_REGEX and the pattern does not compile, or the kind is RANGE and
\* range_start > range_end; otherwise it returns a built matcher, and no Match
\* call ever fails.
C3_CreateFailsOnlyOnBadPatternOrRange ==
  /\ ret.op # "SIGSEGV"
  /\ ret.op = "Match" => ret.result \in BOOLEAN
  /\ (ret.op = "Create" /\ ret.class = "HeaderMatcher") =>
       /\ ~ret.ok <=>
            \/ /\ ret.args.type = HeaderMatcherType.SAFE_REGEX
               /\ ~RE2Parse(ret.args.matcher).ok
            \/ /\ ret.args.type = HeaderMatcherType.RANGE
               /\ Int64Less(ret.args.range_end, ret.args.range_start)
       /\ ret.ok <=> hm[ret.slot] # <<>>
       /\ ret.ok => /\ hm[ret.slot][1].type_ = ret.args.type
                    /\ hm[ret.slot][1].name_ = ret.args.name

\* A RANGE matcher created with range_start = range_end has been matched.
C3_Witness ==
  /\ HMMatched /\ ret.value # <<>>
  /\ HMSelf.type_ = HeaderMatcherType.RANGE
  /\ HMSelf.range_start_ = HMSelf.range_end_

\* s with the ASCII letters A-Z, and no other byte, in lower case.
RefFold(s) ==
  [i \in 1..Len(s) |-> IF 65 <= s[i] /\ s[i] <= 90 THEN s[i] + 32 ELSE s[i]]

\* The reference test of a literal kind: v == p, v starts with p, v ends with p,
\* p is a substring of v.
RefTest(type, v, p) ==
  CASE type = StringMatcherType.EXACT -> v = p
    [] type = StringMatcherType.PREFIX ->
         \E n \in 0..Len(v) : SubSeq(v, 1, n) = p
    [] type = StringMatcherType.SUFFIX ->
         \E n \in 0..Len(v) : SubSeq(v, Len(v) - n + 1, Len(v)) = p
    [] type = StringMatcherType.CONTAINS ->
         \E i \in 1..(Len(v) + 1) : \E j \in (i - 1)..Len(v) : SubSeq(v, i, j) = p

\* a and b differ, and only in the case of a non-ASCII letter.
RefNonAsciiCasePair(a, b) ==
  /\ a # b /\ Len(a) = Len(b)
  /\ \A i \in 1..Len(a) : a[i] = b[i] \/ {a[i], b[i]} = {Ch.E_acute, Ch.e_acute}

\* C4: for every literal kind, StringMatcher::Match(v) is the reference test of
\* the kind, byte for byte when case_sensitive, and after folding only A-Z of
\* both strings when not; strings that differ only in the case of a non-ASCII
\* letter do not match.
C4_LiteralMatchIsReferenceTest ==
  (SMMatched /\ SMSelf.type_ # StringMatcherType.SAFE_REGEX) =>
    /\ ret.result =
         IF SMSelf.case_sensitive_
         THEN RefTest(SMSelf.type_, ret.value[1], SMSelf.string_matcher_)
         ELSE RefTest(SMSelf.type_, RefFold(ret.value[1]),
                      RefFold(SMSelf.string_matcher_))
    /\ (/\ SMSelf.type_ = StringMatcherType.EXACT
        /\ RefNonAsciiCasePair(ret.value[1], SMSelf.string_matcher_))
         => ~ret.result

\* A case-insensitive CONTAINS matcher has folded A-Z and left the non-ASCII
\* letter alone.
C4_Witness ==
  /\ SMMatched /\ SMSelf.type_ = StringMatcherType.CONTAINS
  /\ ~SMSelf.case_sensitive_
  /\ SMSelf.string_matcher_ = <<Ch.A, Ch.E_acute>>
  /\ \/ ret.value[1] = <<Ch.e_acute, Ch.a, Ch.E_acute>> /\ ret.result
     \/ ret.value[1] = <<Ch.E_acute, Ch.a, Ch.e_acute>> /\ ~ret.result

\* The StringMatcher kind named like a shared HeaderMatcher kind.
SameNamedKind(type) ==
  StringMatcherType[CHOOSE k \in DOMAIN StringMatcherType : HeaderMatcherType[k] = type]

\* C5: for each of the five shared kinds K, HeaderMatcher::Create(name, K, p,
\* ..., i).Match(v) is StringMatcher::Create(K, p, true).Match(v) XOR i for every
\* present value v, K being the same-named kind on both sides.
C5_HeaderDelegatesCaseSensitive ==
  (ret.op = "Create" /\ ret.class = "HeaderMatcher" /\ ret.ok /\ ret.args.type < 5) =>
    LET string_matcher ==
          StringMatcher_Create(SameNamedKind(ret.args.type), ret.args.matcher, TRUE)
    IN  /\ string_matcher.ok
        /\ \A v \in HeaderValues :
             HeaderMatcher_Match(hm[ret.slot][1], <<v>>) =
               (StringMatcher_Match(string_matcher.value[1], v)
                  # ret.args.invert_match)

\* An inverted CONTAINS header matcher has been created that matches one value
\* and not another.
C5_Witness ==
  /\ ret.op = "Create" /\ ret.class = "HeaderMatcher" /\ ret.ok
  /\ ret.args.type = HeaderMatcherType.CONTAINS /\ ret.args.invert_match
  /\ ret.args.matcher = <<Ch.a>>
  /\ HeaderMatcher_Match(hm[ret.slot][1], <<<<Ch.A>>>>)
  /\ ~HeaderMatcher_Match(hm[ret.slot][1], <<<<Ch.one, Ch.a>>>>)

\* C6: for a PRESENT matcher, Match(value) is ((value is present) =
\* present_match) XOR invert_match; only the presence of the value counts.
C6_PresentMatch ==
  (HMMatched /\ HMSelf.type_ = HeaderMatcherType.PRESENT) =>
    ret.result = (((ret.value # <<>>) = HMSelf.present_match_[1])
                    # HMSelf.invert_match_)

\* A PRESENT matcher has matched an absent value (present_match false), and a
\* present empty string (present_match true).
C6_Witness ==
  /\ HMMatched /\ HMSelf.type_ = HeaderMatcherType.PRESENT
  /\ ~HMSelf.invert_match_ /\ ret.result
  /\ \/ ret.value = <<>> /\ ~HMSelf.present_match_[1]
     \/ ret.value = <<<<>>>> /\ HMSelf.present_match_[1]

\* C7: two matchers equal under == have identical ToString results, and a
\* matcher is == to one constructed by Create from the same arguments.
C7_EqualMatchersPrintAlike ==
  /\ (ret.op = "Eq" /\ ret.class = "StringMatcher" /\ ret.result) =>
       StringMatcher_ToString(sm[ret.slot][1]) = StringMatcher_ToString(sm[ret.other][1])
  /\ (ret.op = "Eq" /\ ret.class = "HeaderMatcher" /\ ret.result) =>
       HeaderMatcher_ToString(hm[ret.slot][1]) = HeaderMatcher_ToString(hm[ret.other][1])
  /\ (ret.op = "Create" /\ ret.class = "StringMatcher" /\ ret.ok) =>
       LET again == StringMatcher_Create(ret.args[1], ret.args[2], ret.args[3])
       IN  /\ again.ok
           /\ StringMatcher_Eq(sm[ret.slot][1], again.value[1])
           /\ StringMatcher_Eq(again.value[1], sm[ret.slot][1])
  /\ (ret.op = "Create" /\ ret.class = "HeaderMatcher" /\ ret.ok) =>
       LET again == HeaderMatcher_Create(ret.args.name, ret.args.type,
                                         ret.args.matcher, ret.args.range_start,
                                         ret.args.range_end, ret.args.present_match,
                                         ret.args.invert_match)
       IN  /\ again.ok
           /\ HeaderMatcher_Eq(hm[ret.slot][1], again.value[1])
           /\ HeaderMatcher_Eq(again.value[1], hm[ret.slot][1])

\* Two SAFE_REGEX header matchers in different slots have compared equal.
C7_Witness ==
  /\ ret.op = "Eq" /\ ret.class = "HeaderMatcher" /\ ret.result
  /\ ret.slot # ret.other
  /\ hm[ret.slot][1].type_ = HeaderMatcherType.SAFE_REGEX

\* C8: the ToString of a RANGE matcher is the name, "not " exactly when
\* invert_match, and the half-open interval "range=[start, end)".
C8_RangePrintsHalfOpen ==
  (ret.op = "ToString" /\ ret.class = "HeaderMatcher"
     /\ hm[ret.slot][1].type_ = HeaderMatcherType.RANGE) =>
    ret.result =
      \* "HeaderMatcher{" name " " ["not "] "range=[" start ", " end ")" "}"
      <<72, 101, 97, 100, 101, 114, 77, 97, 116, 99, 104, 101, 114, 123>>
      \o hm[ret.slot][1].name_ \o <<32>>
      \o (IF hm[ret.slot][1].invert_match_ THEN <<110, 111, 116, 32>> ELSE <<>>)
      \o <<114, 97, 110, 103, 101, 61, 91>>
      \o FormatInt64(hm[ret.slot][1].range_start_[1]) \o <<44, 32>>
      \o FormatInt64(hm[ret.slot][1].range_end_[1]) \o <<41, 125>>

\* The payload invariant of a StringMatcher: the member its kind selects is
\* populated and the other holds no data.
StringPayloadInvariant(o) ==
  IF o.type_ = StringMatcherType.SAFE_REGEX
  THEN o.regex_matcher_ # <<>> /\ o.string_matcher_ = <<>>
  ELSE o.regex_matcher_ = <<>>

\* The payload invariant of a HeaderMatcher.
HeaderPayloadInvariant(o) ==
  CASE o.type_ = HeaderMatcherType.RANGE ->
         /\ o.range_start_ # Indeterminate /\ o.range_end_ # Indeterminate
         /\ o.present_match_ = Indeterminate
         /\ o.matcher_.string_matcher_ = <<>> /\ o.matcher_.regex_matcher_ = <<>>
    [] o.type_ = HeaderMatcherType.PRESENT ->
         /\ o.present_match_ # Indeterminate
         /\ o.range_start_ = Indeterminate /\ o.range_end_ = Indeterminate
         /\ o.matcher_.string_matcher_ = <<>> /\ o.matcher_.regex_matcher_ = <<>>
    [] OTHER ->
         /\ o.matcher_.type_ = SameNamedKind(o.type_)
         /\ StringPayloadInvariant(o.matcher_)
         /\ o.range_start_ = Indeterminate /\ o.range_end_ = Indeterminate
         /\ o.present_match_ = Indeterminate

\* C9: after any sequence of Create, copy and move operations every instance
\* satisfies the payload invariant, and no operation changes the instance it
\* only reads from (the source of a copy or of a move).
C9_PayloadInvariantAndSourceUntouched ==
  [][/\ \A i \in Slots : sm'[i] # <<>> => StringPayloadInvariant(sm'[i][1])
     /\ \A i \in Slots : hm'[i] # <<>> => HeaderPayloadInvariant(hm'[i][1])
     /\ (/\ ret'.op \in {"CopyCtor", "CopyAssign", "MoveCtor", "MoveAssign"}
         /\ ret'.slot # ret'.other)
          => (sm'[ret'.other] = sm[ret'.other] /\ hm'[ret'.other] = hm[ret'.other])
    ]_vars

\* C10: two matchers of the same class whose ToString results are identical are
\* equal under == and return the same Match result for every value.
C10_ToStringIsDeduplicationKey ==
  /\ (/\ ret.op = "Eq" /\ ret.class = "StringMatcher"
      /\ StringMatcher_ToString(sm[ret.slot][1]) = StringMatcher_ToString(sm[ret.other][1]))
       => /\ ret.result
          /\ \A v \in PoolValues \ {<<>>} :
               StringMatcher_Match(sm[ret.slot][1], v[1])
                 = StringMatcher_Match(sm[ret.other][1], v[1])
  /\ (/\ ret.op = "Eq" /\ ret.class = "HeaderMatcher"
      /\ HeaderMatcher_ToString(hm[ret.slot][1]) = HeaderMatcher_ToString(hm[ret.other][1]))
       => /\ ret.result
          /\ \A v \in PoolValues :
               HeaderMatcher_Match(hm[ret.slot][1], v)
                 = HeaderMatcher_Match(hm[ret.other][1], v)

====
